---- MODULE Spec2Model ----
(***************************************************************************)
(* Model of SessionManager (bot.py): the registry active_qr_sessions, the  *)
(* coroutine create_qr_session, the waiter wait_for_qr_scan and            *)
(* cleanup_session, together with the two entry points that call them      *)
(* (the chat handler handle_api_select and the HTTP route                  *)
(* api_create_session).                                                    *)
(*                                                                         *)
(* Every request is a call c.  A call runs as an asyncio task: one action  *)
(* is the synchronous code between two awaits, so tasks interleave exactly *)
(* at the awaits of the source.  The TelegramClient made by call c is      *)
(* client c; a session is identified by its client.                        *)
(***************************************************************************)
EXTENDS Integers, FiniteSets, Sequences

\* ------------------------------------------------------------ bounds
MaxCalls == 2
NumUsers == 2
\* how many calls into the environment (Telegram, the database) may raise
MaxFaults == 1
\* how many of the calls explored by Spec are chat selections, each of which
\* spawns a waiter; SpecAnyKind explores the calls without this bound
MaxChats == 1

Calls == 1..MaxCalls
Users == 1..NumUsers

\* ------------------------------------------------------------ data
\* api_configs rows present in the database, and an id that is in no row.
StoredApis == {1}
MissingApi == 2
ApiIds == StoredApis \cup {MissingApi}

NoClient == 0
None == "None"
\* what get_me reports for the scanned account
AccountId == "555"
AccountPhone == "+1555"

NoResult == [status |-> "none"]

devices_four ==
    <<[device_model |-> "Samsung SM-G991B", system_version |-> "Android 13", app_version |-> "10.0.0"],
      [device_model |-> "iPhone15,3", system_version |-> "iOS 17.1.2", app_version |-> "10.0.0"],
      [device_model |-> "Desktop", system_version |-> "Windows 10", app_version |-> "4.0.0"],
      [device_model |-> "Pixel 8", system_version |-> "Android 14", app_version |-> "10.0.0"]>>

\* the list `devices` of create_qr_session (lines 293-309)
devices ==
    <<[device_model |-> "Samsung SM-G991B", system_version |-> "Android 13", app_version |-> "10.0.0"],
      [device_model |-> "iPhone15,3", system_version |-> "iOS 17.1.2", app_version |-> "10.0.0"],
      [device_model |-> "Desktop", system_version |-> "Windows 10", app_version |-> "4.0.0"]>>
NoDevice == [device_model |-> "none", system_version |-> "none", app_version |-> "none"]

\* random.choice(seq), i the index the generator drew
random_choice(seq, i) == seq[i]

VARIABLES
    active_qr_sessions, \* the registry: entries [user_id, client, api_config_id]
    user_sessions,      \* rows of table user_sessions written by save_session
    conn,               \* conn[x]: connection state of client x
    disconnects,        \* disconnects[x]: number of disconnect() calls on client x
    pc,                 \* pc[c]: the await at which call c is suspended
    call,               \* call[c]: [kind, user_id, api_config_id] of the request
    evicted,            \* evicted[c]: the prior client create_qr_session disconnected
    created,            \* created[c]: (success, reason) returned by create_qr_session
    data,               \* data[c]: client of the session wait_for_qr_scan holds
    ident,              \* ident[c]: locals telegram_id, phone_number of the waiter
    cause,              \* cause[c]: the exception the waiter caught
    result,             \* result[c]: what wait_for_qr_scan returned
    faults,             \* number of environment calls that have raised
    device              \* device[c]: the local `device` while call c is in create_qr_session

vars == <<active_qr_sessions, user_sessions, conn, disconnects, pc, call,
          evicted, created, data, ident, cause, result, faults, device>>

\* ------------------------------------------------------------ the dict
\* user_id in self.active_qr_sessions
Has(d, u) == \E e \in d : e.user_id = u

\* self.active_qr_sessions[user_id]
Get(d, u) == CHOOSE e \in d : e.user_id = u

DictStoreAppend(d, e) == d \cup {e}

\* self.active_qr_sessions[user_id] = {...}
DictStore(d, e) == {x \in d : x.user_id # e.user_id} \cup {e}

\* del self.active_qr_sessions[user_id]
DictDel(d, u) == {x \in d : x.user_id # u}

\* ------------------------------------------------------------ the database
get_api_by_id_any(p) == TRUE

\* db.get_api_by_id(api_config_id) returned a row
get_api_by_id(p) == p \in StoredApis

save_session_anon(rows, u, s, a, t, ph) ==
    rows \cup {[id |-> Cardinality(rows) + 1, user_id |-> u, session_string |-> s,
                api_config_id |-> a, telegram_id |-> None, phone_number |-> ph]}

save_session_lost(rows, u, s, a, t, ph) == rows

\* db.save_session: one more row; the row id is AUTOINCREMENT
save_session(rows, u, s, a, t, ph) ==
    rows \cup {[id |-> Cardinality(rows) + 1, user_id |-> u, session_string |-> s,
                api_config_id |-> a, telegram_id |-> t, phone_number |-> ph]}

\* db.get_user_sessions: the user's rows (the route reads them newest first)
get_user_sessions(rows, u) == {r \in rows : r.user_id = u}

\* the first row of get_user_sessions: the one with the greatest id
latest_session(rows, u) ==
    CHOOSE r \in get_user_sessions(rows, u) :
        \A q \in get_user_sessions(rows, u) : q.id <= r.id

\* ------------------------------------------------------------ Init
Init ==
    /\ active_qr_sessions = {}
    /\ user_sessions = {}
    /\ conn = [x \in Calls |-> "none"]
    /\ disconnects = [x \in Calls |-> 0]
    /\ pc = [c \in Calls |-> "idle"]
    /\ call = [c \in Calls |-> [kind |-> "none", user_id |-> 1, api_config_id |-> 1]]
    /\ evicted = [c \in Calls |-> NoClient]
    /\ created = [c \in Calls |-> "none"]
    /\ data = [c \in Calls |-> NoClient]
    /\ ident = [c \in Calls |-> [fetch |-> "none", telegram_id |-> None, phone_number |-> None]]
    /\ cause = [c \in Calls |-> "none"]
    /\ result = [c \in Calls |-> NoResult]
    /\ faults = 0
    /\ device = [c \in Calls |-> NoDevice]

\* ------------------------------------------------------------ helpers
User(c) == call[c].user_id

\* An environment call returns (ok) or raises; n calls of this step raise.
Raises(n) == faults + n <= MaxFaults /\ faults' = faults + n
Env(ok) == Raises(IF ok THEN 0 ELSE 1)

\* client.disconnect() is called on client x; ok: it does not raise.  A call
\* that raises leaves the connection as it was.
Disconnect(x, ok) ==
    /\ disconnects' = [disconnects EXCEPT ![x] = @ + 1]
    /\ conn' = IF ok THEN [conn EXCEPT ![x] = "disconnected"] ELSE conn

\* TelegramClient(...) is constructed and client.connect() is called
\* (lines 311-315); the task is suspended in connect.
NewClient(c) ==
    /\ \E i \in 1..Len(devices) :
          device' = [device EXCEPT ![c] = random_choice(devices, i)]
    /\ conn' = [conn EXCEPT ![c] = "created"]
    /\ pc' = [pc EXCEPT ![c] = "connect"]

\* What wait_for_qr_scan returns from an except branch (lines 394, 398).
Failure(why) == [status |-> IF why = "timeout" THEN "timeout" ELSE "error", reason |-> why]

\* cleanup_session(user_id) up to its await (lines 402-404), entered from an
\* except branch of wait_for_qr_scan that caught `why`; with no entry for the
\* user it returns at once and so does the except branch.  dok: the
\* disconnect it calls does not raise.
cleanup_session(c, why, dok) ==
    IF Has(active_qr_sessions, User(c))
    THEN /\ Disconnect(Get(active_qr_sessions, User(c)).client, dok)
         /\ pc' = [pc EXCEPT ![c] = "cleanup"]
         /\ cause' = [cause EXCEPT ![c] = why]
         /\ UNCHANGED result
    ELSE /\ dok
         /\ pc' = [pc EXCEPT ![c] = "done"]
         /\ result' = [result EXCEPT ![c] = Failure(why)]
         /\ UNCHANGED <<conn, disconnects, cause>>

\* ------------------------------------------------------------ entry points
\* Calls are started in the order of their numbers.
Startable(c) == pc[c] = "idle" /\ \A b \in Calls : b < c => pc[b] # "idle"

\* Users are interchangeable: a request comes from a user seen before or from
\* the first user not seen yet.
Seen == {call[b].user_id : b \in {b \in Calls : pc[b] # "idle"}}
NextUser(u) == u \in Seen \/ \A v \in Users \ Seen : u <= v

\* the calls that entered through the chat handler
Chats == {b \in Calls : pc[b] # "idle" /\ call[b].kind = "chat"}

\* handle_api_select up to `await callback.message.edit_text` (lines 472-481)
handle_api_select(c, u, p) ==
    /\ Startable(c)
    /\ NextUser(u)
    /\ call' = [call EXCEPT ![c] = [kind |-> "chat", user_id |-> u, api_config_id |-> p]]
    /\ pc' = [pc EXCEPT ![c] = IF get_api_by_id(p) THEN "called" ELSE "done"]
    /\ UNCHANGED <<active_qr_sessions, user_sessions, conn, disconnects, evicted,
                   created, data, ident, cause, result, faults, device>>

\* the route /api/create_session is entered (lines 1287-1296)
api_create_session(c, u, p) ==
    /\ Startable(c)
    /\ NextUser(u)
    /\ call' = [call EXCEPT ![c] = [kind |-> "http", user_id |-> u, api_config_id |-> p]]
    /\ pc' = [pc EXCEPT ![c] = "called"]
    /\ UNCHANGED <<active_qr_sessions, user_sessions, conn, disconnects, evicted,
                   created, data, ident, cause, result, faults, device>>

\* ------------------------------------------------------------ create_qr_session
\* lines 277-315, up to the first await: the disconnect of the prior
\* session's client if the user has an entry, client.connect() otherwise.
create_qr_session(c, dok) ==
    /\ pc[c] = "called"
    /\ Env(dok)
    /\ IF ~get_api_by_id(call[c].api_config_id)
       THEN /\ dok
            /\ created' = [created EXCEPT ![c] = "not_found"]
            /\ pc' = [pc EXCEPT ![c] = "done"]
            /\ UNCHANGED <<conn, disconnects, evicted, device>>
       ELSE IF Has(active_qr_sessions, User(c))
       THEN /\ Disconnect(Get(active_qr_sessions, User(c)).client, dok)
            /\ evicted' = [evicted EXCEPT ![c] = Get(active_qr_sessions, User(c)).client]
            /\ pc' = [pc EXCEPT ![c] = "evict"]
            /\ UNCHANGED <<created, device>>
       ELSE /\ dok
            /\ NewClient(c)
            /\ UNCHANGED <<disconnects, evicted, created>>
    /\ UNCHANGED <<active_qr_sessions, user_sessions, call, data, ident, cause, result>>

\* the disconnect of the prior client has returned or raised (lines 289-315)
create_qr_session_evicted(c) ==
    /\ pc[c] = "evict"
    /\ NewClient(c)
    /\ UNCHANGED <<active_qr_sessions, user_sessions, disconnects, call, evicted,
                   created, data, ident, cause, result, faults>>

\* client.connect() has returned (ok) or raised (lines 315-318, 334-336)
create_qr_session_connect(c, ok) ==
    /\ pc[c] = "connect"
    /\ Env(ok)
    /\ IF ok
       THEN /\ conn' = [conn EXCEPT ![c] = "connected"]
            /\ pc' = [pc EXCEPT ![c] = "qr_login"]
            /\ UNCHANGED <<created, device>>
       ELSE /\ created' = [created EXCEPT ![c] = "connect_failure"]
            /\ device' = [device EXCEPT ![c] = NoDevice]
            /\ pc' = [pc EXCEPT ![c] = "done"]
            /\ UNCHANGED conn
    /\ UNCHANGED <<active_qr_sessions, user_sessions, disconnects, call, evicted,
                   data, ident, cause, result>>

\* client.qr_login() has returned (ok) or raised (lines 318-336); on success
\* the session is stored and the caller goes on: the chat handler sends the
\* QR picture (line 507), the HTTP route answers (lines 1301-1305).
create_qr_session_qr_login(c, ok) ==
    /\ pc[c] = "qr_login"
    /\ Env(ok)
    /\ device' = [device EXCEPT ![c] = NoDevice]
    /\ IF ok
       THEN /\ active_qr_sessions' = DictStore(active_qr_sessions,
                    [user_id |-> User(c), client |-> c,
                     api_config_id |-> call[c].api_config_id])
            /\ created' = [created EXCEPT ![c] = "ok"]
            /\ pc' = [pc EXCEPT ![c] = IF call[c].kind = "chat" THEN "answer_photo" ELSE "done"]
       ELSE /\ created' = [created EXCEPT ![c] = "profile_invalid"]
            /\ pc' = [pc EXCEPT ![c] = "done"]
            /\ UNCHANGED active_qr_sessions
    /\ UNCHANGED <<user_sessions, conn, disconnects, call, evicted, data, ident,
                   cause, result>>

\* handle_api_select after answer_photo: asyncio.create_task(
\* wait_and_send_session(...)) (lines 507-525); the new task sleeps 2 s.
handle_api_select_spawn(c) ==
    /\ pc[c] = "answer_photo"
    /\ pc' = [pc EXCEPT ![c] = "sleep"]
    /\ UNCHANGED <<active_qr_sessions, user_sessions, conn, disconnects, call,
                   evicted, created, data, ident, cause, result, faults, device>>

\* ------------------------------------------------------------ wait_for_qr_scan
\* wait_and_send_session calls wait_for_qr_scan (lines 618-622), which runs
\* up to `await asyncio.wait_for(data['qr_login'].wait(), 120)` (lines 340-347)
wait_for_qr_scan(c) ==
    /\ pc[c] = "sleep"
    /\ IF Has(active_qr_sessions, User(c))
       THEN /\ data' = [data EXCEPT ![c] = Get(active_qr_sessions, User(c)).client]
            /\ pc' = [pc EXCEPT ![c] = "wait"]
            /\ UNCHANGED result
       ELSE /\ result' = [result EXCEPT ![c] = [status |-> "error", reason |-> "no_session"]]
            /\ pc' = [pc EXCEPT ![c] = "done"]
            /\ UNCHANGED data
    /\ UNCHANGED <<active_qr_sessions, user_sessions, conn, disconnects, call,
                   evicted, created, ident, cause, faults, device>>

\* the bounded wait ends: the confirmation signal (then asyncio.sleep(3),
\* line 350), asyncio.TimeoutError (line 391) or another exception (line 395)
qr_login_wait(c, ev, dok) ==
    /\ pc[c] = "wait"
    /\ Raises((IF ev = "wait_error" THEN 1 ELSE 0) + (IF dok THEN 0 ELSE 1))
    /\ IF ev = "signal"
       THEN /\ dok
            /\ pc' = [pc EXCEPT ![c] = "grace"]
            /\ UNCHANGED <<conn, disconnects, cause, result>>
       ELSE cleanup_session(c, ev, dok)
    /\ UNCHANGED <<active_qr_sessions, user_sessions, call, evicted, created, data, ident, device>>

\* the grace sleep is over; is_user_authorized() is called (lines 350-353)
grace_sleep(c) ==
    /\ pc[c] = "grace"
    /\ pc' = [pc EXCEPT ![c] = "is_user_authorized"]
    /\ UNCHANGED <<active_qr_sessions, user_sessions, conn, disconnects, call,
                   evicted, created, data, ident, cause, result, faults, device>>

\* is_user_authorized() returned False: `return False, ...` (lines 354-355)
not_authorized(c, dok) ==
    /\ dok
    /\ result' = [result EXCEPT ![c] = [status |-> "error", reason |-> "auth_incomplete"]]
    /\ pc' = [pc EXCEPT ![c] = "done"]
    /\ UNCHANGED <<conn, disconnects, cause>>

\* is_user_authorized() has returned True or False, or raised (lines 353-362)
is_user_authorized(c, r, dok) ==
    /\ pc[c] = "is_user_authorized"
    /\ Raises((IF r = "raise" THEN 1 ELSE 0) + (IF dok THEN 0 ELSE 1))
    /\ CASE r = "true" -> /\ dok
                          /\ pc' = [pc EXCEPT ![c] = "get_me"]
                          /\ UNCHANGED <<conn, disconnects, cause, result>>
         [] r = "false" -> not_authorized(c, dok)
         [] OTHER -> cleanup_session(c, "auth_error", dok)
    /\ UNCHANGED <<active_qr_sessions, user_sessions, call, evicted, created, data, ident, device>>

get_me_half(ok) ==
    [fetch |-> IF ok THEN "ok" ELSE "failed",
     telegram_id |-> AccountId,
     phone_number |-> IF ok THEN AccountPhone ELSE None]

\* locals telegram_id, phone_number after the try around get_me (lines 361-367)
get_me_locals(ok) ==
    [fetch |-> IF ok THEN "ok" ELSE "failed",
     telegram_id |-> IF ok THEN AccountId ELSE None,
     phone_number |-> IF ok THEN AccountPhone ELSE None]

\* get_me() has returned or raised; db.save_session then succeeds (saved) or
\* raises; after a save the client's disconnect() is called (lines 362-379)
get_me(c, ok, saved, dok) ==
    /\ pc[c] = "get_me"
    /\ Raises((IF ok THEN 0 ELSE 1) + (IF saved THEN 0 ELSE 1) + (IF dok THEN 0 ELSE 1))
    /\ ident' = [ident EXCEPT ![c] = get_me_locals(ok)]
    /\ IF saved
       THEN /\ user_sessions' = save_session(user_sessions, User(c), data[c],
                    call[data[c]].api_config_id, get_me_locals(ok).telegram_id,
                    get_me_locals(ok).phone_number)
            /\ Disconnect(data[c], dok)
            /\ pc' = [pc EXCEPT ![c] = IF dok THEN "disconnect" ELSE "disconnect_raised"]
            /\ UNCHANGED <<cause, result>>
       ELSE /\ cleanup_session(c, "save_error", dok)
            /\ UNCHANGED user_sessions
    /\ UNCHANGED <<active_qr_sessions, call, evicted, created, data, device>>

\* the value wait_for_qr_scan returns on success (lines 384-389)
Confirmed(c) ==
    [status |-> "confirmed", session_string |-> data[c],
     telegram_id |-> ident[c].telegram_id, phone_number |-> ident[c].phone_number,
     api_config_id |-> call[data[c]].api_config_id]

\* the success path after `await data['client'].disconnect()` (lines 379-398):
\* the disconnect raised, or `del` finds the key, or `del` raises KeyError
\* and the except branch runs cleanup_session, which then finds no entry.
disconnected(c, dok) ==
    /\ pc[c] \in {"disconnect", "disconnect_raised"}
    /\ Env(dok)
    /\ IF pc[c] = "disconnect_raised"
       THEN /\ cleanup_session(c, "disconnect_error", dok)
            /\ UNCHANGED active_qr_sessions
       ELSE IF Has(active_qr_sessions, User(c))
       THEN /\ dok
            /\ active_qr_sessions' = DictDel(active_qr_sessions, User(c))
            /\ result' = [result EXCEPT ![c] = Confirmed(c)]
            /\ pc' = [pc EXCEPT ![c] = "done"]
            /\ UNCHANGED <<conn, disconnects, cause>>
       ELSE /\ cleanup_session(c, "key_error", dok)
            /\ UNCHANGED active_qr_sessions
    /\ UNCHANGED <<user_sessions, call, evicted, created, data, ident, device>>

\* cleanup_session after its await (lines 405-407) and the return of the
\* except branch (lines 394, 398); KeyError from `del` leaves the except
\* branch, so wait_for_qr_scan raises.
cleanup_session_del(c) ==
    /\ pc[c] = "cleanup"
    /\ pc' = [pc EXCEPT ![c] = "done"]
    /\ cause' = [cause EXCEPT ![c] = "none"]
    /\ IF Has(active_qr_sessions, User(c))
       THEN /\ active_qr_sessions' = DictDel(active_qr_sessions, User(c))
            /\ result' = [result EXCEPT ![c] = Failure(cause[c])]
       ELSE /\ result' = [result EXCEPT ![c] =
                    [status |-> "raised", reason |-> "KeyError", during |-> cause[c]]]
            /\ UNCHANGED active_qr_sessions
    /\ UNCHANGED <<user_sessions, conn, disconnects, call, evicted, created, data,
                   ident, faults, device>>

\* ------------------------------------------------------------ specification
\* the steps of a call after its entry
Proceed(c) ==
    \/ \E dok \in BOOLEAN : create_qr_session(c, dok)
    \/ create_qr_session_evicted(c)
    \/ \E ok \in BOOLEAN : create_qr_session_connect(c, ok)
    \/ \E ok \in BOOLEAN : create_qr_session_qr_login(c, ok)
    \/ handle_api_select_spawn(c)
    \/ wait_for_qr_scan(c)
    \/ \E ev \in {"signal", "timeout", "wait_error"}, dok \in BOOLEAN :
          qr_login_wait(c, ev, dok)
    \/ grace_sleep(c)
    \/ \E r \in {"true", "false", "raise"}, dok \in BOOLEAN :
          is_user_authorized(c, r, dok)
    \/ \E ok \in BOOLEAN, saved \in BOOLEAN, dok \in BOOLEAN : get_me(c, ok, saved, dok)
    \/ \E dok \in BOOLEAN : disconnected(c, dok)
    \/ cleanup_session_del(c)

\* MaxCalls requests, at most MaxChats of them chat selections
Next ==
    \E c \in Calls :
        \/ /\ Cardinality(Chats) < MaxChats
           /\ \E u \in Users, p \in ApiIds : handle_api_select(c, u, p)
        \/ \E u \in Users, p \in ApiIds : api_create_session(c, u, p)
        \/ Proceed(c)

Spec == Init /\ [][Next]_vars

\* MaxCalls requests of either kind
NextAnyKind ==
    \E c \in Calls :
        \/ \E u \in Users, p \in ApiIds : handle_api_select(c, u, p)
        \/ \E u \in Users, p \in ApiIds : api_create_session(c, u, p)
        \/ Proceed(c)

SpecAnyKind == Init /\ [][NextAnyKind]_vars

\* ------------------------------------------------------------ properties
\* the entries the registry holds for user u
EntriesOf(u) == {e \in active_qr_sessions : e.user_id = u}

\* the registry holds the session of client x
Registered(x) == \E e \in active_qr_sessions : e.client = x

\* wait_for_qr_scan of call c has returned a terminal outcome for a session
Terminal(c) ==
    /\ pc[c] = "done"
    /\ data[c] # NoClient
    /\ result[c].status \in {"confirmed", "timeout", "error"}

\* C1: in every reachable state the registry active_qr_sessions holds at
\* most one session per user, whatever create_qr_session, wait_for_qr_scan
\* and cleanup_session steps have interleaved.
C1_RegistryUnique == \A u \in Users : Cardinality(EntriesOf(u)) <= 1

\* C1 witness: a create_qr_session stored a session over the entry of a
\* prior session of the same user.
C1_Witness ==
    \E c \in Calls :
        /\ created[c] = "ok"
        /\ evicted[c] # NoClient
        /\ EntriesOf(User(c)) = {[user_id |-> User(c), client |-> c,
                                  api_config_id |-> call[c].api_config_id]}

\* C2: at every instant at most one connection handle opened for a user is
\* connected and not yet disconnected.
C2_OneHandlePerUser ==
    \A u \in Users :
        Cardinality({x \in Calls : call[x].user_id = u /\ conn[x] = "connected"}) <= 1

\* C3: when wait_for_qr_scan has returned CONFIRMED, TIMEOUT or ERROR
\* (authorization incomplete included), the registry has no entry holding
\* the session it waited on.
C3_TerminalDeregisters == \A c \in Calls : Terminal(c) => ~Registered(data[c])

\* C4: when wait_for_qr_scan has returned CONFIRMED, TIMEOUT or ERROR,
\* disconnect has been invoked on the client of the session it waited on.
C4_TerminalDisconnects == \A c \in Calls : Terminal(c) => disconnects[data[c]] >= 1

\* C5: a waiter whose bounded wait ended in asyncio.TimeoutError returns the
\* failure "wait time expired", and when it returns the registry has no
\* entry for its user.
C5_TimeoutOutcome ==
    [][\A c \in Calls :
          /\ (pc[c] = "cleanup" /\ cause[c] = "timeout" /\ pc'[c] = "done")
                => result'[c].status = "timeout"
          /\ (result[c].status # "timeout" /\ result'[c].status = "timeout")
                => ~Has(active_qr_sessions', User(c))]_vars

\* C6: every create_qr_session that returned success has a waiter, on the
\* chat entry point and on the HTTP entry point: once the request is
\* handled, a wait_for_qr_scan has run for it.
C6_WaiterSpawned ==
    \A c \in Calls : (created[c] = "ok" /\ pc[c] = "done") => result[c].status # "none"

\* C7: the connection handle of the prior session that a create_qr_session
\* found and disconnected is disconnected exactly once in the whole
\* execution.
C7_EvictedOnce ==
    \A c \in Calls : evicted[c] # NoClient => disconnects[evicted[c]] = 1

\* C8: create_qr_session with an api profile id unknown to the profile store
\* returns ProfileNotFound, opens no connection, registers no session and
\* leaves the registry and every connection handle as they were.
C8_NotFoundState ==
    \A c \in Calls :
        (call[c].kind = "http" /\ call[c].api_config_id \notin StoredApis
            /\ pc[c] \notin {"idle", "called"})
        => /\ pc[c] = "done"
           /\ created[c] = "not_found"
           /\ conn[c] = "none"
           /\ evicted[c] = NoClient
           /\ ~Registered(c)

C8_NotFoundStep ==
    \A c \in Calls :
        (pc[c] = "called" /\ call[c].api_config_id \notin StoredApis /\ pc'[c] # "called")
        => UNCHANGED <<active_qr_sessions, conn, disconnects>>

C8_ProfileNotFound == []C8_NotFoundState /\ [][C8_NotFoundStep]_vars

\* C8 witness: ProfileNotFound was returned to a user who has a session in
\* flight.
C8_Witness ==
    \E c \in Calls : created[c] = "not_found" /\ EntriesOf(User(c)) # {}

\* C9: after a create_qr_session that failed to open the handshake (connect
\* or qr_login raised) no registry entry holds a session of that call and
\* the connection handle the call opened is not connected.
C9_FailedOpenLeavesNothing ==
    \A c \in Calls :
        created[c] \in {"connect_failure", "profile_invalid"}
        => ~Registered(c) /\ conn[c] # "connected"

\* the row save_session wrote for the waiter of call c with both optional
\* fields unset
SavedUnset(c) ==
    \E r \in user_sessions :
        /\ r.user_id = User(c)
        /\ r.session_string = data[c]
        /\ r.telegram_id = None
        /\ r.phone_number = None

\* C10: a failed get_me never prevents CONFIRMED: telegram_id and
\* phone_number are unset, the credential is persisted with both unset unless
\* save_session itself raises, and wait_for_qr_scan returns success with
\* both unset unless a later step (save_session, disconnect, del) raises.
C10_IdentityFailureConfirms ==
    \A c \in Calls :
        ident[c].fetch = "failed"
        => /\ ident[c].telegram_id = None
           /\ ident[c].phone_number = None
           /\ pc[c] \in {"disconnect", "disconnect_raised"} => SavedUnset(c)
           /\ (pc[c] = "cleanup" /\ ~SavedUnset(c)) => cause[c] = "save_error"
           /\ pc[c] = "done" =>
                IF result[c].status = "confirmed"
                THEN /\ result[c].session_string = data[c]
                     /\ result[c].telegram_id = None
                     /\ result[c].phone_number = None
                     /\ SavedUnset(c)
                ELSE \/ /\ result[c].status = "error"
                        /\ result[c].reason \in {"save_error", "disconnect_error", "key_error"}
                     \/ /\ result[c].status = "raised"
                        /\ result[c].during \in {"save_error", "disconnect_error"}

\* C10 witness: get_me failed and wait_for_qr_scan returned success.
C10_Witness ==
    \E c \in Calls : ident[c].fetch = "failed" /\ result[c].status = "confirmed"

\* wait_for_qr_scan of call c reported the exception of a disconnect() to its
\* caller: as the failure it returned, or as the exception pending when
\* cleanup_session raised
DisconnectReported(c) ==
    \/ result[c].status = "error" /\ result[c].reason = "disconnect_error"
    \/ result[c].status = "raised" /\ result[c].during = "disconnect_error"

\* C11: a failing disconnect never changes the outcome reported to the
\* caller: no wait_for_qr_scan reports the exception of a disconnect, so a
\* waiter that persisted its credential returns CONFIRMED even if the
\* disconnect that follows raises.
C11_DisconnectSwallowed == \A c \in Calls : ~DisconnectReported(c)

\* C12: cleanup_session removes the user's entry and never raises, also when
\* a second cleanup_session for the same user ran while the first was
\* suspended in disconnect(); with no entry for the user it changes nothing.
C12_CleanupIdempotent ==
    [][\A c \in Calls :
          /\ (pc[c] = "cleanup" /\ pc'[c] = "done")
                => /\ result'[c].status # "raised"
                   /\ ~Has(active_qr_sessions', User(c))
          /\ (pc[c] \in {"wait", "is_user_authorized", "get_me"} /\ pc'[c] = "done"
                /\ ~Has(active_qr_sessions, User(c)))
                => UNCHANGED <<active_qr_sessions, conn, disconnects>>]_vars

\* the steps at which wait_for_qr_scan of call c holds a session
WaiterAt == {"wait", "grace", "is_user_authorized", "get_me", "disconnect",
             "disconnect_raised", "cleanup"}

\* C13: a step of a waiter never removes the registry entry of a session
\* other than the one it holds and never calls disconnect on the client of
\* another session.
C13_RemovalBySession ==
    [][\A c \in Calls :
          (pc[c] \in WaiterAt /\ pc'[c] # pc[c])
          => /\ \A e \in active_qr_sessions :
                    e.client # data[c] => e \in active_qr_sessions'
             /\ \A x \in Calls :
                    x # data[c] => disconnects'[x] = disconnects[x]]_vars

\* C14: wait_for_qr_scan never propagates an exception to its caller: every
\* waiter that ended returned a credential or a failure reason.
C14_WaiterReturns ==
    \A c \in Calls : result[c].status \in {"none", "confirmed", "timeout", "error"}

\* the row save_session wrote for the waiter of call c: its user, the
\* credential and api profile of the session it holds, and the account
\* get_me reported
SavedAccount(c) ==
    \E r \in user_sessions :
        /\ r.user_id = User(c)
        /\ r.session_string = data[c]
        /\ r.api_config_id = call[data[c]].api_config_id
        /\ r.telegram_id = AccountId
        /\ r.phone_number = AccountPhone

\* C15 (states): a waiter whose signal fired, whose authorization check
\* returned True and whose get_me returned the account has persisted the row
\* with that account once it is past save_session, and returns CONFIRMED with
\* the account id and phone number unless save_session, disconnect or del
\* raised.
C15_SuccessState ==
    \A c \in Calls :
        ident[c].fetch = "ok"
        => /\ pc[c] \in {"disconnect", "disconnect_raised"} => SavedAccount(c)
           /\ pc[c] = "done" =>
                IF result[c].status = "confirmed"
                THEN /\ result[c].session_string = data[c]
                     /\ result[c].telegram_id = AccountId
                     /\ result[c].phone_number = AccountPhone
                     /\ SavedAccount(c)
                ELSE \/ /\ result[c].status = "error"
                        /\ result[c].reason \in {"save_error", "disconnect_error", "key_error"}
                     \/ /\ result[c].status = "raised"
                        /\ result[c].during \in {"save_error", "disconnect_error"}

\* C15 (steps): when wait_for_qr_scan returns CONFIRMED the registry has no
\* entry for its user.
C15_SuccessStep ==
    \A c \in Calls :
        (result[c].status # "confirmed" /\ result'[c].status = "confirmed")
        => ~Has(active_qr_sessions', User(c))

\* C15: the success scenario.
C15_SuccessScenario == []C15_SuccessState /\ [][C15_SuccessStep]_vars

\* C15 witness: get_me returned the account and wait_for_qr_scan returned
\* CONFIRMED.
C15_Witness ==
    \E c \in Calls : ident[c].fetch = "ok" /\ result[c].status = "confirmed"

\* the closed set of device profiles: Samsung/Android, iPhone/iOS and
\* Desktop/Windows
ClosedProfiles ==
    {<<"Samsung SM-G991B", "Android 13">>, <<"iPhone15,3", "iOS 17.1.2">>,
     <<"Desktop", "Windows 10">>}

\* call c has chosen its device and has not returned from create_qr_session
Opening(c) == pc[c] \in {"connect", "qr_login"}

\* C16 (states): the device every create_qr_session passes to its client is
\* one of the three profiles.
C16_DeviceState ==
    \A c \in Calls :
        /\ Opening(c) => device[c] # NoDevice
        /\ device[c] # NoDevice
              => <<device[c].device_model, device[c].system_version>> \in ClosedProfiles

\* C16 (steps): the device of a call changes only in a step of that call, so
\* a choice never alters the device chosen for another session.
C16_DeviceStep ==
    \A c \in Calls : device'[c] # device[c] => pc'[c] # pc[c]

\* C16: every device profile chosen is a member of the closed set of three
\* and is chosen independently of the other sessions.
C16_DeviceProfile == []C16_DeviceState /\ [][C16_DeviceStep]_vars

\* C16 witness: two create_qr_session calls are open at once with different
\* devices.
C16_Witness ==
    \E c, b \in Calls : Opening(c) /\ Opening(b) /\ device[c] # device[b]

\* call c is inside a put (its eviction disconnect was called and the new
\* entry is not stored yet) or inside a remove (cleanup_session called
\* disconnect and has not deleted yet)
MidOperation(c) ==
    \/ pc[c] \in {"evict", "connect", "qr_login"} /\ evicted[c] # NoClient
    \/ pc[c] = "cleanup"

\* the next step of call b reads the registry entry of its user: the
\* membership test of create_qr_session (line 286) or of wait_for_qr_scan
\* (line 340)
ReadsRegistry(b) ==
    \/ pc[b] = "called" /\ get_api_by_id(call[b].api_config_id)
    \/ pc[b] = "sleep"

\* C17: put and remove are atomic: while a call is inside a put or a remove
\* for a user, no other call takes a step that reads that user's entry.
C17_RegistryAtomic ==
    [][\A c, b \in Calls :
          (c # b /\ MidOperation(c) /\ User(b) = User(c) /\ ReadsRegistry(b))
          => pc'[b] = pc[b]]_vars

\* C18: at the step in which create_qr_session stores a new entry, disconnect
\* has been called on the client of every entry the store overwrites.
C18_EvictBeforeInstall ==
    [][\A c \in Calls :
          (pc[c] = "qr_login" /\ created'[c] = "ok")
          => \A e \in EntriesOf(User(c)) :
                e \notin active_qr_sessions' => disconnects[e.client] >= 1]_vars

\* the session of client x was persisted
Persisted(x) == \E r \in user_sessions : r.session_string = x

\* C19: no credential is persisted for a session on which a waiter timed out
\* or got False from the authorization check, and a row is written for a
\* session only by a waiter that holds it and whose authorization check,
\* made after the signal and the grace wait, returned True.
C19_WaiterOrder ==
    /\ \A c \in Calls :
          (pc[c] = "done" /\ data[c] # NoClient /\ result[c].status \in {"timeout", "error"}
             /\ result[c].reason \in {"timeout", "auth_incomplete"})
          => ~Persisted(data[c])
    /\ \A x \in Calls :
          Persisted(x) => \E c \in Calls : data[c] = x /\ ident[c].fetch # "none"

\* C20: a waiter holds the session created by the create_qr_session of its
\* own request, never a newer session of the same user.
C20_WaiterOwnSession ==
    \A c \in Calls : data[c] # NoClient => data[c] = c

\* C21: save_session is invoked at most once with the credential of a
\* session, however many waiters run for its user.
C21_PersistedOnce ==
    \A x \in Calls : Cardinality({r \in user_sessions : r.session_string = x}) <= 1

\* a call is in the middle of tearing down or replacing the session of
\* client x: a create_qr_session that evicted x and has not returned, or a
\* waiter between a disconnect and the `del` that follows it
BeingRemoved(x) ==
    \E c \in Calls :
        \/ pc[c] \in {"evict", "connect", "qr_login"} /\ evicted[c] = x
        \/ pc[c] \in {"disconnect", "disconnect_raised", "cleanup"}
              /\ Registered(x) /\ Get(active_qr_sessions, User(c)).client = x

\* C22: no registry entry refers to a client on which disconnect has been
\* invoked, except while the eviction or removal of that entry is under
\* way; so after a create_qr_session that evicted the prior session and then
\* failed to open the new handshake, the registry has no entry for the user.
C22_EntryOwnsLiveHandle ==
    \A e \in active_qr_sessions :
        disconnects[e.client] >= 1 => BeingRemoved(e.client)

\* the row of the credential the waiter of call c holds, for its user
SavedBy(c) ==
    \E r \in user_sessions : r.user_id = User(c) /\ r.session_string = data[c]

\* C23 (states): a waiter that is past save_session on the success path, and
\* one that returned success, has its credential in storage; so has every
\* session a waiter confirmed, whether or not it is still registered.
C23_PersistState ==
    \A c \in Calls :
        /\ pc[c] \in {"disconnect", "disconnect_raised"} => SavedBy(c)
        /\ result[c].status = "confirmed" => SavedBy(c)

\* C23 (steps): on the success path the disconnect is called in a step that
\* has written the row, and the session is deleted from the registry and
\* success returned only with the row already in storage.
C23_PersistStep ==
    \A c \in Calls :
        /\ (pc[c] = "get_me" /\ pc'[c] \in {"disconnect", "disconnect_raised"})
              => /\ Cardinality(user_sessions') = Cardinality(user_sessions) + 1
                 /\ \E r \in user_sessions' \ user_sessions :
                        r.user_id = User(c) /\ r.session_string = data[c]
                 /\ disconnects'[data[c]] = disconnects[data[c]] + 1
        /\ (pc[c] = "get_me" /\ user_sessions' = user_sessions)
              => pc'[c] \notin {"disconnect", "disconnect_raised"}
        /\ (result[c].status # "confirmed" /\ result'[c].status = "confirmed")
              => pc[c] = "disconnect" /\ SavedBy(c)

\* C23: the credential is persisted before the disconnect and before the
\* removal, and success is returned only after save_session completed.
C23_PersistBeforeRemove == []C23_PersistState /\ [][C23_PersistStep]_vars

\* C23 witness: a waiter returned success and its session is no longer in
\* the registry.
C23_Witness ==
    \E c \in Calls :
        result[c].status = "confirmed" /\ ~Registered(data[c]) /\ SavedBy(c)

\* wait_for_qr_scan of call c ended after its save_session raised
SaveFailed(c) ==
    /\ pc[c] = "done"
    /\ \/ result[c].status = "error" /\ result[c].reason = "save_error"
       \/ result[c].status = "raised" /\ result[c].during = "save_error"

\* C24: a waiter whose save_session raised returns a failure, disconnect has
\* been invoked on the client of its session, the session is not in the
\* registry and storage holds no row for it.
C24_SaveFailureIsError ==
    \A c \in Calls :
        SaveFailed(c)
        => /\ result[c].status = "error"
           /\ disconnects[data[c]] >= 1
           /\ ~Registered(data[c])
           /\ ~Persisted(data[c])

\* the response of the route /api/check_session for user u in the current
\* state (lines 1319-1349); the route has no await and changes nothing, so
\* a request can be answered in any state
api_check_session(u) ==
    IF Has(active_qr_sessions, u)
    THEN [status |-> "waiting"]
    ELSE IF get_user_sessions(user_sessions, u) # {}
    THEN [status |-> "completed",
          telegram_id |-> latest_session(user_sessions, u).telegram_id,
          phone_number |-> latest_session(user_sessions, u).phone_number]
    ELSE [status |-> "error"]

\* the requests of user u that opened a handshake
Handshakes(u) == {c \in Calls : pc[c] # "idle" /\ call[c].user_id = u /\ created[c] = "ok"}

\* C25: the route reports waiting exactly when the user has a registry
\* entry, and when the handshake most recently started for the user ended in
\* TIMEOUT or ERROR it does not report completed.
C25_StatusRoute ==
    \A u \in Users :
        /\ api_check_session(u).status = "waiting" <=> EntriesOf(u) # {}
        /\ \A c \in Handshakes(u) :
              ((\A b \in Handshakes(u) : b <= c) /\ result[c].status \in {"timeout", "error"})
              => api_check_session(u).status # "completed"

====
